---- MODULE Spec2Model ----
(***************************************************************************)
(* Model of the job orchestrator, the upload worker and the file monitor   *)
(* of the upload service (src/src/services, src/src/core).                 *)
(*                                                                         *)
(* Scheduling: the service is one asyncio event loop.  Code between two    *)
(* suspending awaits runs without interleaving, so every action below is   *)
(* one such stretch of code.  Database calls are synchronous and are never *)
(* suspension points; object-store calls and file reads are.               *)
(*                                                                         *)
(* Values: the scanner returns mtime as a timezone-aware datetime          *)
(* (file_utils.py:19) while File.mtime is a Float column (file.py:21) and  *)
(* time.time() is a float.  Both kinds are kept apart in the model as      *)
(* [ty, v] so that Python's rules apply: float - datetime raises           *)
(* TypeError, float == datetime is False.                                  *)
(***************************************************************************)
EXTENDS Integers, Sequences, FiniteSets, TLC

\* ---------------------------------------------------------------- bounds
Jobs == {"j1", "j2"}
Paths == {"a", "b"}
PathOrder == <<"a", "b">>
MaxSize == 2
MaxTime == 1
MaxFsEvents == 1
MaxCrashes == 1
MaxReruns == 1
MaxFileSize == 9
MaxChunk == 4

\* ------------------------------------------------------------- settings
\* fields of Settings (core/config.py), each overridable from the environment;
\* sizes are counted in units such that one part holds chunk_size units
chunk_size == 1
worker_concurrency == 1
chunks_concurrency == 1
file_stability_threshold == 1

\* ------------------------------------------------------------ variables
VARIABLES
  now,       \* wall clock (time.time())
  folder,    \* folder[j]: the job's source_folder exists on disk
  disk,      \* disk[j][p]: the file p under source_folder of job j
  fsEvents,  \* number of filesystem changes so far
  jobs,      \* jobs[j]: persisted UploadJob.state, "NONE" when no row
  files,     \* committed rows of table files
  s3,        \* s3[j][p]: content length of object <j>/<p>, 0 when missing
  runs,      \* runs[r]: a process_upload_job / retry_job task
  worker,    \* worker[r][p]: the upload_with_semaphore task of a run
  parts,     \* parts[r][p][k]: the _upload_part task k of a multipart upload
  orphans,   \* part tasks whose gather already raised: [queued, inflight]
  sem,       \* value of Orchestrator.semaphore
  chunkSem,  \* value of _upload_semaphore
  mon,       \* file monitor: the jobs of the current tick not yet checked
  crashes,   \* number of process restarts so far
  reruns,    \* number of repeated start_upload_job / retry_job calls so far
  resp,      \* the last response of GET /uploads/{upload_id}
  plan       \* one call of _upload_file_to_s3 followed on its own

vars == <<now, folder, disk, fsEvents, jobs, files, s3, runs, worker, parts,
          orphans, sem, chunkSem, mon, crashes, reruns, resp, plan>>

RunIds == Jobs \cup {"mon"}
Sizes == 1..MaxSize
MaxParts == (MaxSize + chunk_size - 1) \div chunk_size

\* ------------------------------------------------------- python values
Float(n) == [ty |-> "float", v |-> n]
DateTime(n) == [ty |-> "datetime", v |-> n]

\* a == b in Python: values of different types are never equal
PyEq(a, b) == a.ty = b.ty /\ a.v = b.v

\* a - b raises TypeError unless both operands are floats
PySubRaises(a, b) == ~(a.ty = "float" /\ b.ty = "float")

NoFile == [present |-> FALSE, mtime |-> 0, size |-> 0]

\* no request answered yet
NoResponse == [status |-> 0]

\* no call of _upload_file_to_s3 followed on its own
NoPlan ==
  [pc |-> "none", file_size |-> 0, chunk |-> 1, offset |-> 0, part_number |-> 1,
   part_info |-> <<>>, calls |-> <<>>]

\* ------------------------------------------------------------- scanner
find_matching_files(j) ==
  IF ~folder[j] THEN {}
  ELSE {p \in Paths : disk[j][p].present}

file_info(j, p) == [mtime |-> DateTime(disk[j][p].mtime), size |-> disk[j][p].size]

_scan_files(j) == find_matching_files(j)

\* ----------------------------------------------------------- database
RowsOf(j) == {f \in files : f.job = j}

MaxRowId == IF files = {} THEN 0 ELSE CHOOSE n \in {f.id : f \in files} : \A f \in files : f.id <= n

CountState(j, st) == Cardinality({f \in RowsOf(j) : f.state = st})

\* ---------------------------------------------------- progress projector
\* a projection that hands back the persisted state of an unfinished job
compute_job_state_persisted(j) ==
  LET T == Cardinality(RowsOf(j))
      U == CountState(j, "UPLOADED")
      F == CountState(j, "FAILED")
  IN  IF jobs[j] = "NONE" THEN "NONE"
      ELSE IF T = 0 THEN "COMPLETED"
      ELSE IF U = T THEN "COMPLETED"
      ELSE IF F > 0 /\ U + F = T THEN "FAILED"
      ELSE jobs[j]

\* compute_job_state: None ("NONE") without a job row
compute_job_state(j) ==
  LET T == Cardinality(RowsOf(j))
      U == CountState(j, "UPLOADED")
      F == CountState(j, "FAILED")
  IN  IF jobs[j] = "NONE" THEN "NONE"
      ELSE IF T = 0 THEN "COMPLETED"
      ELSE IF U = T THEN "COMPLETED"
      ELSE IF F > 0 /\ U + F = T THEN "FAILED"
      ELSE IF jobs[j] \in {"PENDING", "IN_PROGRESS"} THEN jobs[j]
      ELSE "IN_PROGRESS"

\* a progress that counts every finished row, uploaded or failed
compute_job_progress_finished(j) ==
  LET T == Cardinality(RowsOf(j))
      U == CountState(j, "UPLOADED")
      F == CountState(j, "FAILED")
  IN  [progress |-> IF T = 0 THEN [num |-> 1, den |-> 1] ELSE [num |-> U + F, den |-> T],
       total_files |-> T, completed_files |-> U, failed_files |-> F]

\* compute_job_progress: the fraction is kept as numerator and denominator,
\* 1.0 being the fractions with both equal
compute_job_progress(j) ==
  LET T == Cardinality(RowsOf(j))
      U == CountState(j, "UPLOADED")
      F == CountState(j, "FAILED")
  IN  [progress |-> IF T = 0 THEN [num |-> 1, den |-> 1] ELSE [num |-> U, den |-> T],
       total_files |-> T, completed_files |-> U, failed_files |-> F]

\* ------------------------------------------------------- reconciliation
\* a stability check that lets every file through
is_file_stable_always(filter, info) == "stable"

\* is_file_stable: "stable", "unstable", or "TypeError" when the subtraction raises
is_file_stable(filter, info) ==
  IF ~filter THEN "stable"
  ELSE IF PySubRaises(Float(now), info.mtime) THEN "TypeError"
  ELSE IF now - info.mtime.v >= file_stability_threshold THEN "stable"
  ELSE "unstable"

\* a reconciliation that does not look up the rows the job already has
existing_files_ignored(j, p) == {}

\* existing_files = {file_record.path: file_record for file_record in db_files}
existing_files(j, p) == {f \in RowsOf(j) : f.path = p}

existing_file(j, p) == CHOOSE f \in existing_files(j, p) : TRUE

\* the branch of the reconciliation loop taken for one scanned file
Classify(j, p, filter) ==
  LET info == file_info(j, p)
      st == is_file_stable(filter, info)
  IN  IF st = "TypeError" THEN "TypeError"
      ELSE IF st = "unstable" THEN "unstable"
      ELSE IF existing_files(j, p) = {} THEN "new"
      ELSE IF existing_file(j, p).state = "UPLOADED"
           THEN IF PyEq(existing_file(j, p).mtime, info.mtime) /\ existing_file(j, p).size = info.size
                THEN "unchanged" ELSE "modified"
      ELSE "retry"

Enqueued(j, scan, filter) == {p \in scan : Classify(j, p, filter) \in {"new", "modified", "retry"}}

\* position of a new path among the new paths, in scan order
Rank(p, S) == Cardinality({q \in S : \E i, k \in 1..Len(PathOrder) : PathOrder[i] = q /\ PathOrder[k] = p /\ i <= k})

\* what the Float column keeps of a bound value when the driver accepts it
FloatColumn(m) == Float(m.v)

\* an UPLOADED row whose file changed: new fingerprint, PENDING, reason cleared
MarkModified(f, info) ==
  [f EXCEPT !.mtime = FloatColumn(info.mtime), !.size = info.size,
            !.state = "PENDING", !.reason = "none"]

\* a reset that forgets to clear failure_reason
MarkRetryKeepsReason(f) == [f EXCEPT !.state = "PENDING"]

\* a PENDING, IN_PROGRESS or FAILED row: PENDING, reason cleared, fingerprint kept
MarkRetry(f) == [f EXCEPT !.state = "PENDING", !.reason = "none"]

\* a reconciliation that also removes the rows of the files it did not scan
ReconciledPruning(j, scan, filter) ==
  LET news == {p \in scan : Classify(j, p, filter) = "new"}
      touched == {existing_file(j, p) : p \in {q \in scan : Classify(j, q, filter) \in {"modified", "retry"}}}
      gone == {f \in RowsOf(j) : f.path \notin scan}
      upd(f) == IF Classify(j, f.path, filter) = "modified"
                THEN MarkModified(f, file_info(j, f.path))
                ELSE MarkRetry(f)
  IN  ((files \ touched) \ gone)
        \cup {upd(f) : f \in touched}
        \cup {[id |-> MaxRowId + Rank(p, news), job |-> j, path |-> p, state |-> "PENDING",
               reason |-> "none", mtime |-> FloatColumn(file_info(j, p).mtime),
               size |-> file_info(j, p).size] : p \in news}

\* the rows after db.commit() of the reconciliation
Reconciled(j, scan, filter) ==
  LET news == {p \in scan : Classify(j, p, filter) = "new"}
      touched == {existing_file(j, p) : p \in {q \in scan : Classify(j, q, filter) \in {"modified", "retry"}}}
      upd(f) == IF Classify(j, f.path, filter) = "modified"
                THEN MarkModified(f, file_info(j, f.path))
                ELSE MarkRetry(f)
  IN  (files \ touched)
        \cup {upd(f) : f \in touched}
        \cup {[id |-> MaxRowId + Rank(p, news), job |-> j, path |-> p, state |-> "PENDING",
               reason |-> "none", mtime |-> FloatColumn(file_info(j, p).mtime),
               size |-> file_info(j, p).size] : p \in news}

\* the commit binds a datetime to the Float column mtime
BindsDateTime(j, scan, filter) == \E p \in scan : Classify(j, p, filter) \in {"new", "modified"}

\* ----------------------------------------------------------------- init
\* a task slot with no task; how tells how the last task of the slot ended
IdleRun == [pc |-> "idle", job |-> "j1", filter |-> FALSE, prev |-> "NONE", how |-> "none", kind |-> "none"]
\* an upload_with_semaphore task: size, mtime are the stat upload_file took,
\* got the bytes its parts read, fin the parts in the order they finished,
\* sent the Parts list given to complete_multipart_upload, err a part
\* raised, aborts the abort_multipart_upload calls, ret the return value
IdleWorker ==
  [pc |-> "none", fid |-> 0, size |-> 0, mtime |-> 0, got |-> 0,
   fin |-> <<>>, sent |-> <<>>, err |-> FALSE, aborts |-> 0, ret |-> "none"]
NoParts == [k \in 1..MaxParts |-> "none"]

\* the source folders when the service starts: file b of j1 may not exist yet
InitDisk ==
  [j \in Jobs |-> [p \in Paths |->
     IF j = "j1" /\ p = "a" THEN [present |-> TRUE, mtime |-> 0, size |-> 1]
     ELSE IF j = "j1" /\ p = "b" THEN [present |-> TRUE, mtime |-> 0, size |-> MaxSize]
     ELSE IF j = "j2" /\ p = "a" THEN [present |-> TRUE, mtime |-> 0, size |-> MaxSize]
     ELSE NoFile]]

Init ==
  /\ now = 0
  /\ folder = [j \in Jobs |-> TRUE]
  /\ disk \in {InitDisk, [InitDisk EXCEPT !["j1"]["b"] = NoFile]}
  /\ fsEvents = 0
  /\ jobs = [j \in Jobs |-> "NONE"]
  /\ files = {}
  /\ s3 = [j \in Jobs |-> [p \in Paths |-> 0]]
  /\ runs = [r \in RunIds |-> IdleRun]
  /\ worker = [r \in RunIds |-> [p \in Paths |-> IdleWorker]]
  /\ parts = [r \in RunIds |-> [p \in Paths |-> NoParts]]
  /\ orphans = [queued |-> 0, inflight |-> 0]
  /\ sem = worker_concurrency
  /\ chunkSem = chunks_concurrency
  /\ mon = {}
  /\ crashes = 0
  /\ reruns = 0
  /\ resp = NoResponse
  /\ plan = NoPlan

\* ---------------------------------------------------------- environment
\* the clock advances
Tick ==
  /\ now < MaxTime
  /\ now' = now + 1
  /\ UNCHANGED <<folder, disk, fsEvents, jobs, files, s3, runs, worker, parts,
                 orphans, sem, chunkSem, mon, crashes, reruns, resp, plan>>

\* a writer outside the service creates or overwrites a source file
ModifyFile(j, p, sz) ==
  /\ fsEvents < MaxFsEvents
  /\ folder[j]
  /\ ~(disk[j][p].present /\ disk[j][p].mtime = now /\ disk[j][p].size = sz)
  /\ disk' = [disk EXCEPT ![j][p] = [present |-> TRUE, mtime |-> now, size |-> sz]]
  /\ fsEvents' = fsEvents + 1
  /\ UNCHANGED <<now, folder, jobs, files, s3, runs, worker, parts, orphans,
                 sem, chunkSem, mon, crashes, reruns, resp, plan>>

\* a source file is removed
DeleteFile(j, p) ==
  /\ fsEvents < MaxFsEvents
  /\ disk[j][p].present
  /\ disk' = [disk EXCEPT ![j][p] = NoFile]
  /\ fsEvents' = fsEvents + 1
  /\ UNCHANGED <<now, folder, jobs, files, s3, runs, worker, parts, orphans,
                 sem, chunkSem, mon, crashes, reruns, resp, plan>>

\* the whole source folder is removed
RemoveFolder(j) ==
  /\ fsEvents < MaxFsEvents
  /\ folder[j]
  /\ folder' = [folder EXCEPT ![j] = FALSE]
  /\ disk' = [disk EXCEPT ![j] = [p \in Paths |-> NoFile]]
  /\ fsEvents' = fsEvents + 1
  /\ UNCHANGED <<now, jobs, files, s3, runs, worker, parts, orphans,
                 sem, chunkSem, mon, crashes, reruns, resp, plan>>

\* ------------------------------------------------------------------ API
\* a task scheduled on the event loop that has not run yet
Scheduled(kind, j) == [pc |-> kind, job |-> j, filter |-> FALSE, prev |-> "NONE", how |-> "none", kind |-> kind]

\* POST /uploads: insert the job row PENDING and schedule start_upload_job
create_upload(j) ==
  /\ folder[j]
  /\ jobs[j] = "NONE"
  /\ runs[j].pc = "idle"
  /\ jobs' = [jobs EXCEPT ![j] = "PENDING"]
  /\ runs' = [runs EXCEPT ![j] = Scheduled("sched_create", j)]
  /\ UNCHANGED <<now, folder, disk, fsEvents, files, s3, worker, parts, orphans,
                 sem, chunkSem, mon, crashes, reruns, resp, plan>>

\* an external caller invokes the entry point start_upload_job(id) again on
\* a job that no task is processing
start_upload_job(j) ==
  /\ reruns < MaxReruns
  /\ jobs[j] \in {"COMPLETED", "FAILED"}
  /\ \A r \in RunIds : runs[r].pc \in {"idle", "stopped"} \/ runs[r].job # j
  /\ runs' = [runs EXCEPT ![j] = Scheduled("sched_create", j)]
  /\ reruns' = reruns + 1
  /\ UNCHANGED <<now, folder, disk, fsEvents, jobs, files, s3, worker, parts, orphans,
                 sem, chunkSem, mon, crashes, resp, plan>>

\* an external caller invokes orchestrator.retry_job(id) on a FAILED job
\* that no task is processing
retry_failed_job(j) ==
  /\ reruns < MaxReruns
  /\ jobs[j] = "FAILED"
  /\ \A r \in RunIds : runs[r].pc \in {"idle", "stopped"} \/ runs[r].job # j
  /\ runs' = [runs EXCEPT ![j] = Scheduled("sched_retry", j)]
  /\ reruns' = reruns + 1
  /\ UNCHANGED <<now, folder, disk, fsEvents, jobs, files, s3, worker, parts, orphans,
                 sem, chunkSem, mon, crashes, resp, plan>>

\* GET /uploads/{upload_id}: 404 without a job row, else the derived state
\* and the progress, both computed from the same rows
get_upload_progress(j) ==
  /\ resp' = IF jobs[j] = "NONE"
             THEN [status |-> 404]
             ELSE [status |-> 200, upload_id |-> j,
                   progress |-> compute_job_progress(j).progress,
                   state |-> compute_job_state(j),
                   total_files |-> compute_job_progress(j).total_files,
                   completed_files |-> compute_job_progress(j).completed_files]
  /\ UNCHANGED <<now, folder, disk, fsEvents, jobs, files, s3, runs, worker, parts,
                 orphans, sem, chunkSem, mon, crashes, reruns, plan>>

\* ---------------------------------------------------------- orchestrator
\* the end of a task: the slot is free again and remembers how it ended
Ended(r, how) == [runs[r] EXCEPT !.pc = "idle", !.how = how]

\* process_upload_job up to the await of ensure_bucket_exists
Begin(r, j, filter) ==
  IF jobs[j] = "NONE"
  THEN /\ runs' = [runs EXCEPT ![r] = [pc |-> "idle", job |-> j, filter |-> filter,
                                       prev |-> "NONE", how |-> "not_found", kind |-> IF filter THEN "monitor" ELSE runs[r].pc]]
       /\ UNCHANGED jobs
  ELSE /\ jobs' = [jobs EXCEPT ![j] = "IN_PROGRESS"]
       /\ runs' = [runs EXCEPT ![r] = [pc |-> "bucket", job |-> j, filter |-> filter,
                                       prev |-> jobs[j], how |-> "running", kind |-> IF filter THEN "monitor" ELSE runs[r].pc]]

\* the background task of create_upload starts running
process_upload_job(r) ==
  /\ runs[r].pc = "sched_create"
  /\ Begin(r, runs[r].job, FALSE)
  /\ UNCHANGED <<now, folder, disk, fsEvents, files, s3, worker, parts, orphans,
                 sem, chunkSem, mon, crashes, reruns, resp, plan>>

\* a retry that starts from scratch: it deletes every row of the job
retry_job_from_scratch(r) ==
  /\ runs[r].pc = "sched_retry"
  /\ files' = {f \in files : f.job # runs[r].job}
  /\ Begin(r, runs[r].job, FALSE)
  /\ UNCHANGED <<now, folder, disk, fsEvents, s3, worker, parts, orphans,
                 sem, chunkSem, mon, crashes, reruns, resp, plan>>

\* retry_job: delete the rows that are not UPLOADED, then process_upload_job
retry_job(r) ==
  /\ runs[r].pc = "sched_retry"
  /\ files' = {f \in files : ~(f.job = runs[r].job /\ f.state \in {"PENDING", "FAILED", "IN_PROGRESS"})}
  /\ Begin(r, runs[r].job, FALSE)
  /\ UNCHANGED <<now, folder, disk, fsEvents, s3, worker, parts, orphans,
                 sem, chunkSem, mon, crashes, reruns, resp, plan>>

\* tasks created for rows that were not committed: a new row has no id yet
SpawnBeforeCommit(j, q, rows) ==
  [p \in Paths |-> IF p \in q
     THEN [IdleWorker EXCEPT !.pc = "queued",
             !.fid = IF existing_files(j, p) = {} THEN 0 ELSE existing_file(j, p).id]
     ELSE IdleWorker]

\* the tasks created by asyncio.gather for the enqueued rows
Spawn(j, q, rows) ==
  [p \in Paths |-> IF p \in q
     THEN [IdleWorker EXCEPT !.pc = "queued", !.fid = (CHOOSE f \in rows : f.job = j /\ f.path = p).id]
     ELSE IdleWorker]

\* a final state computed from the rows of the scanned files only
FinalStateOfBatch(j, rows, cur) ==
  LET batch == {f \in rows : f.job = j /\ f.path \in _scan_files(j)}
      T == Cardinality(batch)
      U == Cardinality({f \in batch : f.state = "UPLOADED"})
      F == Cardinality({f \in batch : f.state = "FAILED"})
  IN  IF U + F = T THEN (IF F = 0 THEN "COMPLETED" ELSE "FAILED") ELSE cur

\* a final state that does not look at the failed rows
FinalStateIgnoresFailures(j, rows, cur) ==
  LET T == Cardinality({f \in rows : f.job = j})
      U == Cardinality({f \in rows : f.job = j /\ f.state = "UPLOADED"})
      F == Cardinality({f \in rows : f.job = j /\ f.state = "FAILED"})
  IN  IF U + F = T THEN "COMPLETED" ELSE cur

\* _update_job_state_after_upload over the committed rows
FinalState(j, rows, cur) ==
  LET T == Cardinality({f \in rows : f.job = j})
      U == Cardinality({f \in rows : f.job = j /\ f.state = "UPLOADED"})
      F == Cardinality({f \in rows : f.job = j /\ f.state = "FAILED"})
  IN  IF U + F = T THEN (IF F = 0 THEN "COMPLETED" ELSE "FAILED") ELSE cur

\* a run that returns on a missing bucket without recording the failure
BucketFailedUnrecorded(r) ==
  /\ runs[r].pc = "bucket"
  /\ runs' = [runs EXCEPT ![r] = Ended(r, "bucket_failed")]
  /\ UNCHANGED <<now, folder, disk, fsEvents, jobs, files, s3, worker, parts, orphans,
                 sem, chunkSem, mon, crashes, reruns, resp, plan>>

\* ensure_bucket_exists returned False
BucketFailed(r) ==
  /\ runs[r].pc = "bucket"
  /\ jobs' = [jobs EXCEPT ![runs[r].job] = "FAILED"]
  /\ runs' = [runs EXCEPT ![r] = Ended(r, "bucket_failed")]
  /\ UNCHANGED <<now, folder, disk, fsEvents, files, s3, worker, parts, orphans,
                 sem, chunkSem, mon, crashes, reruns, resp, plan>>

\* a run that treats an empty scan as a failure of the job
ScanEmptyFails(r) ==
  /\ runs[r].pc = "bucket"
  /\ _scan_files(runs[r].job) = {}
  /\ jobs' = [jobs EXCEPT ![runs[r].job] = "FAILED"]
  /\ runs' = [runs EXCEPT ![r] = Ended(r, "empty")]
  /\ UNCHANGED <<now, folder, disk, fsEvents, files, s3, worker, parts, orphans,
                 sem, chunkSem, mon, crashes, reruns, resp, plan>>

\* ensure_bucket_exists returned True and the scan is empty
ScanEmpty(r) ==
  /\ runs[r].pc = "bucket"
  /\ _scan_files(runs[r].job) = {}
  /\ jobs' = [jobs EXCEPT ![runs[r].job] = "COMPLETED"]
  /\ runs' = [runs EXCEPT ![r] = Ended(r, "empty")]
  /\ UNCHANGED <<now, folder, disk, fsEvents, files, s3, worker, parts, orphans,
                 sem, chunkSem, mon, crashes, reruns, resp, plan>>

\* the reconciliation raises: is_file_stable raises TypeError on the first
\* scanned file, or the commit that binds a datetime to the Float column is
\* rejected.  The handler of process_upload_job then marks the job FAILED,
\* unless, after a rejected commit, its own query raises too (handlerOk false)
ReconcileRaises(r, typeError, handlerOk) ==
  LET j == runs[r].job
      scan == _scan_files(j)
  IN  /\ runs[r].pc = "bucket"
      /\ scan # {}
      /\ typeError = (\E p \in scan : Classify(j, p, runs[r].filter) = "TypeError")
      /\ typeError => handlerOk
      /\ ~typeError => BindsDateTime(j, scan, runs[r].filter)
      /\ jobs' = [jobs EXCEPT ![j] = IF handlerOk THEN "FAILED" ELSE @]
      /\ runs' = [runs EXCEPT ![r] = Ended(r, "raised")]
      /\ UNCHANGED <<now, folder, disk, fsEvents, files, s3, worker, parts, orphans,
                     sem, chunkSem, mon, crashes, reruns, resp, plan>>

\* the reconciliation commits; with nothing to upload the run ends here,
\* otherwise the workers are created and the run waits for them
Reconcile(r) ==
  LET j == runs[r].job
      scan == _scan_files(j)
      q == Enqueued(j, scan, runs[r].filter)
      rows == Reconciled(j, scan, runs[r].filter)
  IN  /\ runs[r].pc = "bucket"
      /\ scan # {}
      /\ \A p \in scan : Classify(j, p, runs[r].filter) # "TypeError"
      /\ files' = rows
      /\ IF q = {}
         THEN /\ jobs' = [jobs EXCEPT ![j] = FinalState(j, rows, @)]
              /\ runs' = [runs EXCEPT ![r] = Ended(r, "nothing")]
              /\ UNCHANGED worker
         ELSE /\ runs' = [runs EXCEPT ![r].pc = "upload"]
              /\ worker' = [worker EXCEPT ![r] = Spawn(j, q, rows)]
              /\ UNCHANGED jobs
      /\ UNCHANGED <<now, folder, disk, fsEvents, s3, parts, orphans,
                     sem, chunkSem, mon, crashes, reruns, resp, plan>>

\* gather returned: every worker of the run is done
Finish(r) ==
  /\ runs[r].pc = "upload"
  /\ \A p \in Paths : worker[r][p].pc \in {"none", "done"}
  /\ jobs' = [jobs EXCEPT ![runs[r].job] = FinalState(runs[r].job, files, @)]
  /\ runs' = [runs EXCEPT ![r] = Ended(r, "uploaded")]
  /\ worker' = [worker EXCEPT ![r] = [p \in Paths |-> IdleWorker]]
  /\ UNCHANGED <<now, folder, disk, fsEvents, files, s3, parts, orphans,
                 sem, chunkSem, mon, crashes, reruns, resp, plan>>

\* --------------------------------------------------------- upload worker
RowExists(fid) == \E f \in files : f.id = fid

\* file_record.state = st; db.commit()
SetState(fid, st) == {IF f.id = fid THEN [f EXCEPT !.state = st] ELSE f : f \in files}

\* file_record.state = FAILED; file_record.failure_reason = why; db.commit()
SetFailed(fid, why) == {IF f.id = fid THEN [f EXCEPT !.state = "FAILED", !.reason = why] ELSE f : f \in files}

\* a worker that does not wait for a permit of the orchestrator's semaphore
upload_without_semaphore(r, p) == TRUE

\* async with self.semaphore: a permit is free
upload_with_semaphore(r, p) == sem > 0

\* a part upload that does not wait for a permit of the process-wide semaphore
_upload_part_unbounded(r, p, k) == TRUE

\* async with _upload_semaphore: a permit is free
_upload_part(r, p, k) == chunkSem > 0

NumParts(size) == (size + chunk_size - 1) \div chunk_size

PartOffset(k) == (k - 1) * chunk_size

PartSize(k, size) == IF size - PartOffset(k) < chunk_size THEN size - PartOffset(k) ELSE chunk_size

\* bytes f.seek(offset); f.read(size) returns from a file of length len
ReadLen(k, size, len) ==
  IF len <= PartOffset(k) THEN 0
  ELSE IF len - PartOffset(k) < PartSize(k, size) THEN len - PartOffset(k)
  ELSE PartSize(k, size)

\* a worker that returns false without recording the failure in its row
WorkerFailsSilently(r, p, why) ==
  /\ files' = files
  /\ worker' = [worker EXCEPT ![r][p].pc = "done", ![r][p].ret = "false"]
  /\ sem' = sem + 1

\* the worker leaves upload_file with the row FAILED and releases its permit
WorkerFails(r, p, why) ==
  /\ files' = SetFailed(worker[r][p].fid, why)
  /\ worker' = [worker EXCEPT ![r][p].pc = "done", ![r][p].ret = "false"]
  /\ sem' = sem + 1

\* upload_file from the permit to the first await of _upload_file_to_s3
upload_file(r, p) ==
  LET w == worker[r][p]
      j == runs[r].job
  IN  /\ w.pc = "queued"
      /\ upload_with_semaphore(r, p)
      /\ IF ~RowExists(w.fid)
         THEN /\ worker' = [worker EXCEPT ![r][p].pc = "done", ![r][p].ret = "false"]
              /\ UNCHANGED <<files, sem>>
         ELSE IF ~disk[j][p].present
         THEN /\ files' = SetFailed(w.fid, "Source file not found")
              /\ worker' = [worker EXCEPT ![r][p].pc = "done", ![r][p].ret = "false"]
              /\ UNCHANGED sem
         ELSE /\ files' = SetState(w.fid, "IN_PROGRESS")
              /\ worker' = [worker EXCEPT ![r][p] =
                   [w EXCEPT !.pc = IF disk[j][p].size <= chunk_size THEN "put" ELSE "mp_create",
                             !.size = disk[j][p].size, !.mtime = disk[j][p].mtime]]
              /\ sem' = sem - 1
      /\ UNCHANGED <<now, folder, disk, fsEvents, jobs, s3, runs, parts, orphans,
                     chunkSem, mon, crashes, reruns, resp, plan>>

\* _simple_upload: read the whole file, put_object
_simple_upload(r, p, ok) ==
  LET j == runs[r].job
  IN  /\ worker[r][p].pc = "put"
      /\ IF disk[j][p].present /\ ok
         THEN /\ s3' = [s3 EXCEPT ![j][p] = disk[j][p].size]
              /\ worker' = [worker EXCEPT ![r][p].pc = "verify"]
              /\ UNCHANGED <<files, sem>>
         ELSE /\ WorkerFails(r, p, "File upload failed")
              /\ UNCHANGED s3
      /\ UNCHANGED <<now, folder, disk, fsEvents, jobs, runs, parts, orphans,
                     chunkSem, mon, crashes, reruns, resp, plan>>

\* _multipart_upload: create_multipart_upload and the part tasks
create_multipart_upload(r, p, ok) ==
  /\ worker[r][p].pc = "mp_create"
  /\ IF ok
     THEN /\ worker' = [worker EXCEPT ![r][p].pc = "mp_parts"]
          /\ parts' = [parts EXCEPT ![r][p] =
               [k \in 1..MaxParts |-> IF k <= NumParts(worker[r][p].size) THEN "todo" ELSE "none"]]
          /\ UNCHANGED <<files, sem>>
     ELSE /\ WorkerFails(r, p, "File upload failed")
          /\ UNCHANGED parts
  /\ UNCHANGED <<now, folder, disk, fsEvents, jobs, s3, runs, orphans,
                 chunkSem, mon, crashes, reruns, resp, plan>>

\* _upload_part takes a permit of the process-wide semaphore
PartStart(r, p, k) ==
  /\ parts[r][p][k] = "todo"
  /\ _upload_part(r, p, k)
  /\ parts' = [parts EXCEPT ![r][p][k] = "inflight"]
  /\ chunkSem' = chunkSem - 1
  /\ UNCHANGED <<now, folder, disk, fsEvents, jobs, files, s3, runs, worker, orphans,
                 sem, mon, crashes, reruns, resp, plan>>

\* _upload_part reads its chunk, calls upload_part and releases the permit
PartEnd(r, p, k, ok) ==
  LET j == runs[r].job
      good == ok /\ disk[j][p].present
  IN  /\ parts[r][p][k] = "inflight"
      /\ parts' = [parts EXCEPT ![r][p][k] = IF good THEN "ok" ELSE "err"]
      /\ worker' = [worker EXCEPT
           ![r][p].got = IF good THEN @ + ReadLen(k, worker[r][p].size, disk[j][p].size) ELSE @,
           ![r][p].fin = IF good THEN Append(@, k) ELSE @,
           ![r][p].err = @ \/ ~good]
      /\ chunkSem' = chunkSem + 1
      /\ UNCHANGED <<now, folder, disk, fsEvents, jobs, files, s3, runs, orphans,
                     sem, mon, crashes, reruns, resp, plan>>

\* gather raised on the first failed part: abort_multipart_upload is issued
\* while the other part tasks keep running
PartFailed(r, p) ==
  /\ worker[r][p].pc = "mp_parts"
  /\ \E k \in 1..MaxParts : parts[r][p][k] = "err"
  /\ worker' = [worker EXCEPT ![r][p].pc = "mp_abort", ![r][p].aborts = @ + 1]
  /\ orphans' = [queued |-> orphans.queued + Cardinality({k \in 1..MaxParts : parts[r][p][k] = "todo"}),
                 inflight |-> orphans.inflight + Cardinality({k \in 1..MaxParts : parts[r][p][k] = "inflight"})]
  /\ parts' = [parts EXCEPT ![r][p] = NoParts]
  /\ UNCHANGED <<now, folder, disk, fsEvents, jobs, files, s3, runs,
                 sem, chunkSem, mon, crashes, reruns, resp, plan>>

\* a part task of an already failed upload takes its permit
OrphanStart ==
  /\ orphans.queued > 0
  /\ chunkSem > 0
  /\ orphans' = [queued |-> orphans.queued - 1, inflight |-> orphans.inflight + 1]
  /\ chunkSem' = chunkSem - 1
  /\ UNCHANGED <<now, folder, disk, fsEvents, jobs, files, s3, runs, worker, parts,
                 sem, mon, crashes, reruns, resp, plan>>

\* a part task of an already failed upload ends and releases its permit
OrphanEnd ==
  /\ orphans.inflight > 0
  /\ orphans' = [orphans EXCEPT !.inflight = @ - 1]
  /\ chunkSem' = chunkSem + 1
  /\ UNCHANGED <<now, folder, disk, fsEvents, jobs, files, s3, runs, worker, parts,
                 sem, mon, crashes, reruns, resp, plan>>

\* a gather that hands back its results in the order the tasks finished
gather_as_completed(r, p) == worker[r][p].fin

\* asyncio.gather(*upload_tasks): the part numbers of the results, in the
\* order of the tasks, which is the order of part_info
gather(r, p) == [k \in 1..NumParts(worker[r][p].size) |-> k]

\* a gather that returns once every part task has ended, raised or not
AllPartsSettled(r, p) ==
  \A k \in 1..NumParts(worker[r][p].size) : parts[r][p][k] \in {"ok", "err"}

\* gather returns normally only when every part task returned its result
AllPartsUploaded(r, p) ==
  \A k \in 1..NumParts(worker[r][p].size) : parts[r][p][k] = "ok"

\* gather returned all parts: complete_multipart_upload
complete_multipart_upload(r, p, ok) ==
  LET j == runs[r].job
  IN  /\ worker[r][p].pc = "mp_parts"
      /\ AllPartsUploaded(r, p)
      /\ parts' = [parts EXCEPT ![r][p] = NoParts]
      /\ IF ok
         THEN /\ s3' = [s3 EXCEPT ![j][p] = worker[r][p].got]
              /\ worker' = [worker EXCEPT ![r][p].pc = "verify", ![r][p].sent = gather(r, p)]
         ELSE /\ worker' = [worker EXCEPT ![r][p].pc = "mp_abort", ![r][p].sent = gather(r, p),
                                          ![r][p].aborts = @ + 1]
              /\ UNCHANGED s3
      /\ UNCHANGED <<now, folder, disk, fsEvents, jobs, files, runs, orphans,
                     sem, chunkSem, mon, crashes, reruns, resp, plan>>

\* abort_multipart_upload returned or raised (ok false): its own error is
\* logged and dropped, the failure that led to the abort propagates and
\* upload_file marks the row FAILED
abort_multipart_upload(r, p, ok) ==
  /\ worker[r][p].pc = "mp_abort"
  /\ WorkerFails(r, p, "File upload failed")
  /\ UNCHANGED <<now, folder, disk, fsEvents, jobs, s3, runs, parts, orphans,
                 chunkSem, mon, crashes, reruns, resp, plan>>

\* a verification that accepts any object head_object finds under the key
_verify_upload_found(r, p, ok) ==
  LET w == worker[r][p]
  IN  /\ w.pc = "verify"
      /\ IF ok
         THEN /\ files' = SetState(w.fid, "UPLOADED")
              /\ worker' = [worker EXCEPT ![r][p].pc = "done", ![r][p].ret = "true"]
              /\ sem' = sem + 1
         ELSE WorkerFails(r, p, "Upload verification failed")
      /\ UNCHANGED <<now, folder, disk, fsEvents, jobs, s3, runs, parts, orphans,
                     chunkSem, mon, crashes, reruns, resp, plan>>

\* _verify_upload: head_object, then the final row state
_verify_upload(r, p, ok) ==
  LET j == runs[r].job
      w == worker[r][p]
  IN  /\ w.pc = "verify"
      /\ IF ok /\ s3[j][p] = w.size
         THEN /\ files' = SetState(w.fid, "UPLOADED")
              /\ worker' = [worker EXCEPT ![r][p].pc = "done", ![r][p].ret = "true"]
              /\ sem' = sem + 1
         ELSE WorkerFails(r, p, "Upload verification failed")
      /\ UNCHANGED <<now, folder, disk, fsEvents, jobs, s3, runs, parts, orphans,
                     chunkSem, mon, crashes, reruns, resp, plan>>

\* ---------------------------------------------------------- file monitor
\* a tick that loads every job that has not failed
active_or_unfinished_jobs == {j \in Jobs : jobs[j] \in {"COMPLETED", "PENDING", "IN_PROGRESS"}}

\* a tick that also loads the jobs that failed
active_or_failed_jobs == {j \in Jobs : jobs[j] \in {"COMPLETED", "FAILED"}}

\* the jobs a tick loads: persisted state COMPLETED
active_jobs == {j \in Jobs : jobs[j] = "COMPLETED"}

\* FileMonitor.check_upload_job up to its first suspension: skip a missing
\* folder, else process_upload_job(id, True) up to ensure_bucket_exists
CheckJob(j) ==
  IF folder[j]
  THEN Begin("mon", j, TRUE)
  ELSE UNCHANGED <<jobs, runs>>

\* _scan_active_jobs: a tick loads its jobs and checks the first of them;
\* nothing suspends between the query and that check
_scan_active_jobs(j) ==
  /\ mon = {}
  /\ runs["mon"].pc = "idle"
  /\ j \in active_jobs
  /\ mon' = active_jobs \ {j}
  /\ CheckJob(j)
  /\ UNCHANGED <<now, folder, disk, fsEvents, files, s3, worker, parts,
                 orphans, sem, chunkSem, crashes, reruns, resp, plan>>

\* a loop that starts the check of the next job without awaiting the check
\* of the job before it
check_upload_job_unawaited(j) ==
  /\ j \in mon
  /\ mon' = mon \ {j}
  /\ CheckJob(j)
  /\ UNCHANGED <<now, folder, disk, fsEvents, files, s3, worker, parts,
                 orphans, sem, chunkSem, crashes, reruns, resp, plan>>

\* the loop of _scan_active_jobs goes on to the next job loaded by the tick,
\* once the check of the job before it has returned
check_upload_job(j) ==
  /\ j \in mon
  /\ runs["mon"].pc = "idle"
  /\ mon' = mon \ {j}
  /\ CheckJob(j)
  /\ UNCHANGED <<now, folder, disk, fsEvents, files, s3, worker, parts,
                 orphans, sem, chunkSem, crashes, reruns, resp, plan>>

\* FileMonitor.stop at shutdown: the monitor task is cancelled.  The re-scan
\* the tick is awaiting runs inside that task, so CancelledError is raised at
\* its suspended await of ensure_bucket_exists; it is not an Exception, no
\* handler of the run catches it, and the job stays as Begin left it.  After
\* stop the monitor starts no tick.  (A stop between two ticks cancels only
\* the sleep of the loop and is left out.)
stop ==
  /\ runs["mon"].pc = "bucket"
  /\ runs' = [runs EXCEPT !["mon"] = [@ EXCEPT !.pc = "stopped", !.how = "cancelled"]]
  /\ mon' = {}
  /\ UNCHANGED <<now, folder, disk, fsEvents, jobs, files, s3, worker, parts,
                 orphans, sem, chunkSem, crashes, reruns, resp, plan>>

\* ------------------------------------------------------- crash, recovery
\* a recovery that also retries the jobs that had failed
RestartResumesFailed ==
  /\ crashes < MaxCrashes
  /\ crashes' = crashes + 1
  /\ runs' = [r \in RunIds |->
       IF r \in Jobs /\ jobs[r] \in {"PENDING", "IN_PROGRESS", "FAILED"}
       THEN Scheduled("sched_retry", r) ELSE IdleRun]
  /\ worker' = [r \in RunIds |-> [p \in Paths |-> IdleWorker]]
  /\ parts' = [r \in RunIds |-> [p \in Paths |-> NoParts]]
  /\ orphans' = [queued |-> 0, inflight |-> 0]
  /\ sem' = worker_concurrency
  /\ chunkSem' = chunks_concurrency
  /\ mon' = {}
  /\ UNCHANGED <<now, folder, disk, fsEvents, jobs, files, s3, reruns, resp, plan>>

\* the process dies and restarts: tasks and semaphores are gone, the rows,
\* the objects and the disk stay; resume_incomplete_jobs schedules retry_job
Restart ==
  /\ crashes < MaxCrashes
  /\ crashes' = crashes + 1
  /\ runs' = [r \in RunIds |->
       IF r \in Jobs /\ jobs[r] \in {"PENDING", "IN_PROGRESS"}
       THEN Scheduled("sched_retry", r) ELSE IdleRun]
  /\ worker' = [r \in RunIds |-> [p \in Paths |-> IdleWorker]]
  /\ parts' = [r \in RunIds |-> [p \in Paths |-> NoParts]]
  /\ orphans' = [queued |-> 0, inflight |-> 0]
  /\ sem' = worker_concurrency
  /\ chunkSem' = chunks_concurrency
  /\ mon' = {}
  /\ UNCHANGED <<now, folder, disk, fsEvents, jobs, files, s3, reruns, resp, plan>>

\* -------------------------------------------------------- specification
\* the steps of the tasks of the service
Service ==
  \/ \E r \in RunIds : process_upload_job(r)
  \/ \E r \in RunIds : retry_job(r)
  \/ \E r \in RunIds : BucketFailed(r)
  \/ \E r \in RunIds, typeError, handlerOk \in BOOLEAN : ReconcileRaises(r, typeError, handlerOk)
  \/ \E r \in RunIds : Reconcile(r)
  \/ \E r \in RunIds : Finish(r)
  \/ \E r \in RunIds, p \in Paths : upload_file(r, p)
  \/ \E r \in RunIds, p \in Paths, ok \in BOOLEAN : _simple_upload(r, p, ok)
  \/ \E r \in RunIds, p \in Paths, ok \in BOOLEAN : create_multipart_upload(r, p, ok)
  \/ \E r \in RunIds, p \in Paths, k \in 1..MaxParts : PartStart(r, p, k)
  \/ \E r \in RunIds, p \in Paths, k \in 1..MaxParts, ok \in BOOLEAN : PartEnd(r, p, k, ok)
  \/ \E r \in RunIds, p \in Paths : PartFailed(r, p)
  \/ OrphanStart
  \/ OrphanEnd
  \/ \E r \in RunIds, p \in Paths, ok \in BOOLEAN : complete_multipart_upload(r, p, ok)
  \/ \E r \in RunIds, p \in Paths, ok \in BOOLEAN : abort_multipart_upload(r, p, ok)
  \/ \E r \in RunIds, p \in Paths, ok \in BOOLEAN : _verify_upload(r, p, ok)
  \/ \E j \in Jobs : _scan_active_jobs(j)
  \/ Restart

\* one job whose source folder changes while the service runs
Next ==
  \/ Tick
  \/ \E p \in Paths, sz \in Sizes : ModifyFile("j1", p, sz)
  \/ \E p \in Paths : DeleteFile("j1", p)
  \/ RemoveFolder("j1")
  \/ create_upload("j1")
  \/ start_upload_job("j1")
  \/ retry_failed_job("j1")
  \/ stop
  \/ \E r \in RunIds : ScanEmpty(r)
  \/ Service

Spec == Init /\ [][Next]_vars

\* several jobs at once, over source folders that do not change
NextJobs ==
  \/ \E j \in Jobs : create_upload(j)
  \/ \E j \in Jobs : check_upload_job(j)
  \/ Service

SpecJobs == Init /\ [][NextJobs]_vars

\* the status endpoint over every set of rows a job can have and every
\* persisted job state
StatusOrder == <<"a", "b", "c">>
StatusPaths == {StatusOrder[i] : i \in 1..Len(StatusOrder)}

\* the rows of job j1 with the states st gives them, "none" for no row
StatusRows(st) ==
  {[id |-> i, job |-> "j1", path |-> StatusOrder[i], state |-> st[StatusOrder[i]],
    reason |-> IF st[StatusOrder[i]] = "FAILED" THEN "File upload failed" ELSE "none",
    mtime |-> Float(0), size |-> 1] :
     i \in {k \in 1..Len(StatusOrder) : st[StatusOrder[k]] # "none"}}

InitStatus ==
  /\ now = 0
  /\ folder = [j \in Jobs |-> TRUE]
  /\ disk = InitDisk
  /\ fsEvents = 0
  /\ \E st \in {"NONE", "PENDING", "IN_PROGRESS", "COMPLETED", "FAILED"} :
       jobs = [j \in Jobs |-> IF j = "j1" THEN st ELSE "NONE"]
  /\ \E st \in [StatusPaths -> {"none", "PENDING", "IN_PROGRESS", "UPLOADED", "FAILED"}] :
       files = StatusRows(st)
  /\ s3 = [j \in Jobs |-> [p \in Paths |-> 0]]
  /\ runs = [r \in RunIds |-> IdleRun]
  /\ worker = [r \in RunIds |-> [p \in Paths |-> IdleWorker]]
  /\ parts = [r \in RunIds |-> [p \in Paths |-> NoParts]]
  /\ orphans = [queued |-> 0, inflight |-> 0]
  /\ sem = worker_concurrency
  /\ chunkSem = chunks_concurrency
  /\ mon = {}
  /\ crashes = 0
  /\ reruns = 0
  /\ resp = NoResponse
  /\ plan = NoPlan

NextStatus == \E j \in Jobs : get_upload_progress(j)

SpecStatus == InitStatus /\ [][NextStatus]_vars

\* one call of _upload_file_to_s3 for every file size and every chunk size:
\* the choice between the two uploads and the loop that plans the parts
\* a plan whose parts all have the size of a chunk
part_size_full(chunk, file_size, offset) == chunk

\* size = min(self.chunk_size, file_size - offset)
part_size(chunk, file_size, offset) ==
  IF chunk < file_size - offset THEN chunk ELSE file_size - offset

\* if file_size <= self.chunk_size: _simple_upload, which issues put_object;
\* else _multipart_upload, which starts with create_multipart_upload
_upload_file_to_s3 ==
  /\ plan.pc = "start"
  /\ plan' = IF plan.file_size <= plan.chunk
             THEN [plan EXCEPT !.pc = "done", !.calls = <<"put_object">>]
             ELSE [plan EXCEPT !.pc = "loop", !.calls = <<"create_multipart_upload">>]
  /\ UNCHANGED <<now, folder, disk, fsEvents, jobs, files, s3, runs, worker, parts,
                 orphans, sem, chunkSem, mon, crashes, reruns, resp>>

\* while offset < file_size: one iteration; after the loop one task per part
_multipart_upload ==
  /\ plan.pc = "loop"
  /\ plan' = IF plan.offset < plan.file_size
             THEN [plan EXCEPT
                     !.part_info = Append(@, [part_number |-> plan.part_number,
                                              offset |-> plan.offset,
                                              size |-> part_size(plan.chunk, plan.file_size, plan.offset)]),
                     !.offset = @ + part_size(plan.chunk, plan.file_size, plan.offset),
                     !.part_number = @ + 1]
             ELSE [plan EXCEPT !.pc = "done"]
  /\ UNCHANGED <<now, folder, disk, fsEvents, jobs, files, s3, runs, worker, parts,
                 orphans, sem, chunkSem, mon, crashes, reruns, resp>>

InitPlan ==
  /\ now = 0
  /\ folder = [j \in Jobs |-> TRUE]
  /\ disk = InitDisk
  /\ fsEvents = 0
  /\ jobs = [j \in Jobs |-> "NONE"]
  /\ files = {}
  /\ s3 = [j \in Jobs |-> [p \in Paths |-> 0]]
  /\ runs = [r \in RunIds |-> IdleRun]
  /\ worker = [r \in RunIds |-> [p \in Paths |-> IdleWorker]]
  /\ parts = [r \in RunIds |-> [p \in Paths |-> NoParts]]
  /\ orphans = [queued |-> 0, inflight |-> 0]
  /\ sem = worker_concurrency
  /\ chunkSem = chunks_concurrency
  /\ mon = {}
  /\ crashes = 0
  /\ reruns = 0
  /\ resp = NoResponse
  /\ \E fs \in 0..MaxFileSize, c \in 1..MaxChunk :
       plan = [NoPlan EXCEPT !.pc = "start", !.file_size = fs, !.chunk = c]

NextPlan ==
  \/ _upload_file_to_s3
  \/ _multipart_upload

SpecPlan == InitPlan /\ [][NextPlan]_vars

\* ------------------------------------------------------------- properties
\* worker states between taking and releasing the orchestrator's permit
Executing == {"put", "mp_create", "mp_parts", "mp_abort", "verify"}

ActiveWorkers(j) ==
  {w \in RunIds \X Paths : runs[w[1]].pc = "upload" /\ runs[w[1]].job = j /\ worker[w[1]][w[2]].pc \in Executing}

\* C1: at every instant, for every job, the number of workers executing
\* upload_file for files of that job is at most worker_concurrency
C1_WorkersPerJob == \A j \in Jobs : Cardinality(ActiveWorkers(j)) <= worker_concurrency

\* C1 witness: a job has worker_concurrency workers executing, another of its
\* workers waits for a permit, and a second job is uploading at the same time
C1_Witness ==
  \E j \in Jobs :
    /\ Cardinality(ActiveWorkers(j)) = worker_concurrency
    /\ \E p \in Paths : runs[j].pc = "upload" /\ worker[j][p].pc = "queued"
    /\ \E i \in Jobs \ {j} : runs[i].pc = "upload"

InFlightParts ==
  Cardinality({x \in RunIds \X Paths \X (1..MaxParts) : parts[x[1]][x[2]][x[3]] = "inflight"})
    + orphans.inflight

\* C2: at every instant the number of part uploads between permit acquisition
\* and release, over all files of all jobs, is at most chunks_concurrency
C2_PartsInFlight == InFlightParts <= chunks_concurrency

\* C2 witness: a part left running by a failed file holds the last permit
\* while a part of another file waits for one
C2_Witness ==
  /\ orphans.inflight = chunks_concurrency
  /\ InFlightParts = chunks_concurrency
  /\ \E r \in RunIds, p \in Paths, k \in 1..MaxParts : parts[r][p][k] = "todo"

\* C3: in every reachable state no two File rows have the same
\* (upload_job_id, path)
C3_UniquePaths == \A f, g \in files : (f.job = g.job /\ f.path = g.path) => f = g

\* C3 witness: a repeated run has reconciled a job whose files all had rows
\* already and uploads them again
C3_Witness ==
  /\ reruns = 1
  /\ runs["j1"].pc = "upload"
  /\ Cardinality(RowsOf("j1")) = Cardinality(Paths)
  /\ \E f \in RowsOf("j1") : f.state = "PENDING" /\ s3["j1"][f.path] > 0

\* C4: a File row has a non-empty failure_reason if and only if its state is
\* FAILED
C4_ReasonIffFailed == \A f \in files : (f.reason # "none") <=> (f.state = "FAILED")

\* C4 witness: in a run that re-enqueued the rows of a FAILED job, one row is
\* FAILED again with a reason and another is UPLOADED without one
C4_Witness ==
  /\ runs["j1"].pc = "upload"
  /\ runs["j1"].prev = "FAILED"
  /\ \E f, g \in RowsOf("j1") :
       /\ f.state = "FAILED" /\ f.reason # "none"
       /\ g.state = "UPLOADED" /\ g.reason = "none"

\* the row a worker was created for
RowOfWorker(w) == CHOOSE f \in files : f.id = w.fid

\* C5: every UPLOADED row carries the (mtime, size) the source file had when
\* its bytes were uploaded, also when the file changed between the scan and
\* the worker's upload
C5_FingerprintOfUploadedBytes ==
  \A r \in RunIds, p \in Paths :
    (/\ runs[r].pc = "upload"
     /\ worker[r][p].pc = "done"
     /\ RowExists(worker[r][p].fid)
     /\ RowOfWorker(worker[r][p]).state = "UPLOADED")
    => /\ RowOfWorker(worker[r][p]).size = worker[r][p].size
       /\ RowOfWorker(worker[r][p]).mtime.v = worker[r][p].mtime

\* C6: when the derived state of a job is COMPLETED, every row of the job is
\* UPLOADED and its object exists with content_length equal to the row's size
C6_CompletedMeansStored ==
  \A j \in Jobs :
    compute_job_state(j) = "COMPLETED"
    => \A f \in RowsOf(j) :
         /\ f.state = "UPLOADED"
         /\ s3[j][f.path] > 0
         /\ s3[j][f.path] = f.size

\* every file of the folder has an UPLOADED row with the file's current
\* mtime and size, and every row has its file
Unchanged(j) ==
  /\ folder[j]
  /\ \A p \in Paths :
       IF disk[j][p].present
       THEN \E f \in RowsOf(j) : /\ f.path = p
                                 /\ f.state = "UPLOADED"
                                 /\ f.mtime.v = disk[j][p].mtime
                                 /\ f.size = disk[j][p].size
       ELSE existing_files(j, p) = {}

\* the step of run r that leaves the reconciliation with the bucket available
LeavesReconciliation(r) ==
  /\ runs[r].pc = "bucket"
  /\ runs'[r].pc # "bucket"
  /\ runs'[r].how # "bucket_failed"

\* C7: a second process_upload_job on a COMPLETED job whose source directory
\* is unchanged uploads nothing, leaves every row UPLOADED and the job COMPLETED
C7_SecondRunUploadsNothing ==
  [][\A j \in Jobs :
       (/\ LeavesReconciliation(j)
        /\ ~runs[j].filter
        /\ runs[j].prev = "COMPLETED"
        /\ _scan_files(j) # {}
        /\ Unchanged(j))
       => /\ runs'[j].pc = "idle"
          /\ files' = files
          /\ jobs'[j] = "COMPLETED"]_vars

Young(j, p) == now - disk[j][p].mtime < file_stability_threshold

\* C8: a run with the filter on does not upload a scanned file younger than
\* file_stability_threshold, creates no row for it and leaves its row as it
\* is; a run with the filter off enqueues the file whatever its age
C8_RecentFilesSkipped ==
  [][\A r \in RunIds :
       LeavesReconciliation(r) =>
         \A p \in _scan_files(runs[r].job) :
           IF runs[r].filter
           THEN Young(runs[r].job, p) =>
                  /\ worker'[r][p].pc = "none"
                  /\ \A f \in files : f.job = runs[r].job /\ f.path = p => f \in files'
                  /\ \A f \in files' : f.job = runs[r].job /\ f.path = p => f \in files
           ELSE p \in Enqueued(runs[r].job, _scan_files(runs[r].job), FALSE)]_vars

\* C8 witness: a monitor run has left the reconciliation of a folder that
\* holds a file younger than the threshold whose row is UPLOADED
C8_Witness ==
  /\ runs["mon"].pc = "idle"
  /\ runs["mon"].how = "raised"
  /\ runs["mon"].filter
  /\ \E p \in _scan_files("j1") :
       /\ Young("j1", p)
       /\ \E f \in existing_files("j1", p) : f.state = "UPLOADED"

Aged(j, p) == now - disk[j][p].mtime >= file_stability_threshold

\* C9: a monitor run on a COMPLETED job that scans a file with no row and of
\* age at least file_stability_threshold creates the row and uploads the file
C9_MonitorUploadsNewFile ==
  [][\A p \in Paths :
       (/\ LeavesReconciliation("mon")
        /\ runs["mon"].filter
        /\ runs["mon"].prev = "COMPLETED"
        /\ p \in _scan_files(runs["mon"].job)
        /\ existing_files(runs["mon"].job, p) = {}
        /\ Aged(runs["mon"].job, p))
       => /\ \E f \in files' : f.job = runs["mon"].job /\ f.path = p /\ f.state = "PENDING"
          /\ runs'["mon"].pc = "upload"
          /\ worker'["mon"][p].pc = "queued"]_vars

\* C10: a monitor run on a COMPLETED job that scans a file whose UPLOADED row
\* differs from the file on disk, of age at least file_stability_threshold,
\* resets the row to PENDING with the new mtime and size and uploads the file
C10_MonitorReuploadsModifiedFile ==
  [][\A f \in files :
       (/\ LeavesReconciliation("mon")
        /\ runs["mon"].filter
        /\ runs["mon"].prev = "COMPLETED"
        /\ f.job = runs["mon"].job
        /\ f.path \in _scan_files(f.job)
        /\ f.state = "UPLOADED"
        /\ (f.mtime.v # disk[f.job][f.path].mtime \/ f.size # disk[f.job][f.path].size)
        /\ Aged(f.job, f.path))
       => /\ [f EXCEPT !.state = "PENDING", !.size = disk[f.job][f.path].size,
                       !.mtime = Float(disk[f.job][f.path].mtime)] \in files'
          /\ runs'["mon"].pc = "upload"
          /\ worker'["mon"][f.path].pc = "queued"]_vars

\* the step that ends run r, other than a restart of the process
RunEnds(r) ==
  /\ runs[r].pc \in {"bucket", "upload"}
  /\ runs'[r].pc = "idle"
  /\ crashes' = crashes

\* no row of job j is FAILED after the step
NoUploadFailed(j) == \A f \in files' : f.job = j => f.state # "FAILED"

\* every row of job j is UPLOADED after the step, and so is the row of every
\* file the run scanned (the files on disk, when the folder never changed)
ScannedFilesUploaded(j) ==
  /\ \A f \in files' : f.job = j => f.state = "UPLOADED"
  /\ fsEvents = 0 =>
       \A p \in _scan_files(j) : \E f \in files' : f.job = j /\ f.path = p /\ f.state = "UPLOADED"

\* C11: the run that startup recovery schedules for a job a crash left PENDING
\* or IN_PROGRESS, with the bucket available and no upload failing, ends with
\* the job COMPLETED and the row of every scanned file UPLOADED
C11_RecoveryCompletes ==
  [][\A j \in Jobs :
       (/\ RunEnds(j)
        /\ runs[j].kind = "sched_retry"
        /\ runs[j].prev \in {"PENDING", "IN_PROGRESS"}
        /\ runs'[j].how # "bucket_failed"
        /\ NoUploadFailed(j))
       => /\ jobs'[j] = "COMPLETED"
          /\ ScannedFilesUploaded(j)]_vars

\* C12: retry_job on a FAILED job whose source folder exists, with the bucket
\* available and no upload failing, ends with the job COMPLETED and no row of
\* the job FAILED, PENDING or IN_PROGRESS
C12_RetryOfFailedJobCompletes ==
  [][\A j \in Jobs :
       (/\ RunEnds(j)
        /\ runs[j].kind = "sched_retry"
        /\ runs[j].prev = "FAILED"
        /\ folder[j]
        /\ runs'[j].how # "bucket_failed"
        /\ NoUploadFailed(j))
       => /\ jobs'[j] = "COMPLETED"
          /\ \A f \in files' : f.job = j => f.state = "UPLOADED"]_vars

\* the step in which gather has returned and the run sets the final job state
BatchEnds(r) ==
  /\ runs[r].pc = "upload"
  /\ runs'[r].pc = "idle"
  /\ crashes' = crashes

\* C13: when the batch of a run ends, every worker it started has returned
\* and the row of each is UPLOADED or FAILED, whatever the other workers did;
\* the job is then FAILED exactly when a row of the job is FAILED and every
\* row of the job is UPLOADED or FAILED
C13_FailuresDoNotAbortPeers ==
  [][\A r \in RunIds :
       BatchEnds(r)
       => /\ \A p \in Paths :
               worker[r][p].pc # "none"
               => /\ worker[r][p].pc = "done"
                  /\ \E f \in files' : /\ f.id = worker[r][p].fid
                                       /\ f.state \in {"UPLOADED", "FAILED"}
          /\ (jobs'[runs[r].job] = "FAILED")
             <=> (/\ \E f \in files' : f.job = runs[r].job /\ f.state = "FAILED"
                  /\ \A f \in files' : f.job = runs[r].job => f.state \in {"UPLOADED", "FAILED"})]_vars

\* C13 witness: a batch has ended with one row UPLOADED and another FAILED,
\* and the job is FAILED
C13_Witness ==
  \E r \in RunIds :
    /\ runs[r].pc = "idle"
    /\ runs[r].how = "uploaded"
    /\ jobs[runs[r].job] = "FAILED"
    /\ \E f, g \in RowsOf(runs[r].job) : f.state = "UPLOADED" /\ g.state = "FAILED"

\* C14: a run that ends with the bucket available leaves the job FAILED only
\* when, at that point, a row of the job is FAILED and no row of the job is
\* PENDING or IN_PROGRESS; an exception of the reconciliation alone does not
\* fail the job
C14_JobFailsOnlyOnFailedRows ==
  [][\A r \in RunIds :
       (/\ RunEnds(r)
        /\ runs'[r].how # "bucket_failed"
        /\ jobs'[runs[r].job] = "FAILED")
       => /\ \E f \in files' : f.job = runs[r].job /\ f.state = "FAILED"
          /\ \A f \in files' : f.job = runs[r].job => f.state \notin {"PENDING", "IN_PROGRESS"}]_vars

\* the counts of the rows of job j: total, uploaded, failed
Total(j) == Cardinality(RowsOf(j))
Uploaded(j) == CountState(j, "UPLOADED")
Failed(j) == CountState(j, "FAILED")

\* C15: for an existing job the derived state is COMPLETED if T = 0 or U = T;
\* otherwise FAILED if F > 0 and U + F = T; otherwise the persisted state if
\* that is PENDING or IN_PROGRESS; otherwise IN_PROGRESS
C15_DerivedState ==
  resp.status = 200 =>
    resp.state =
      IF Total(resp.upload_id) = 0 \/ Uploaded(resp.upload_id) = Total(resp.upload_id)
      THEN "COMPLETED"
      ELSE IF Failed(resp.upload_id) > 0
              /\ Uploaded(resp.upload_id) + Failed(resp.upload_id) = Total(resp.upload_id)
      THEN "FAILED"
      ELSE IF jobs[resp.upload_id] = "PENDING" THEN "PENDING"
      ELSE "IN_PROGRESS"

\* C15 witness: a job persisted COMPLETED or FAILED with an unfinished row
\* next to an uploaded and a failed one is reported IN_PROGRESS
C15_Witness ==
  /\ resp.status = 200
  /\ resp.state = "IN_PROGRESS"
  /\ jobs[resp.upload_id] \in {"COMPLETED", "FAILED"}
  /\ Uploaded(resp.upload_id) = 1
  /\ Failed(resp.upload_id) = 1
  /\ Total(resp.upload_id) = 3

\* C16: the status endpoint reports state COMPLETED exactly when it reports
\* progress 1.0, and then completed_files equals total_files
C16_CompletedIffFullProgress ==
  resp.status = 200 =>
    /\ (resp.state = "COMPLETED") <=> (resp.progress.num = resp.progress.den)
    /\ resp.state = "COMPLETED" => resp.completed_files = resp.total_files

\* C16 witness: a job persisted FAILED whose three rows are all UPLOADED is
\* reported COMPLETED with progress 1.0
C16_Witness ==
  /\ resp.status = 200
  /\ resp.state = "COMPLETED"
  /\ resp.progress.num = resp.progress.den
  /\ resp.total_files = 3
  /\ jobs[resp.upload_id] = "FAILED"

\* C17: when complete_multipart_upload is called for a file of N parts, every
\* part 1..N has finished uploading successfully, and the Parts list holds
\* the part numbers 1..N, each once, in ascending order, whatever the order
\* in which the parts finished
C17_PartsCompleteAndAscending ==
  \A r \in RunIds, p \in Paths :
    worker[r][p].sent # <<>> =>
      /\ \A k \in 1..NumParts(worker[r][p].size) :
           \E i \in 1..Len(worker[r][p].fin) : worker[r][p].fin[i] = k
      /\ Len(worker[r][p].sent) = NumParts(worker[r][p].size)
      /\ \A i \in 1..Len(worker[r][p].sent) : worker[r][p].sent[i] = i

\* C17 witness: complete_multipart_upload was called for a file whose part 2
\* finished before its part 1
C17_Witness ==
  \E r \in RunIds, p \in Paths :
    /\ worker[r][p].sent # <<>>
    /\ worker[r][p].fin = <<2, 1>>

\* C18: once a part upload of a multipart upload has failed,
\* complete_multipart_upload is not called for it, abort_multipart_upload is
\* issued exactly once, and upload_file returns false with the row FAILED for
\* the failed upload, whether or not the abort itself succeeded
C18_PartFailureAborts ==
  \A r \in RunIds, p \in Paths :
    worker[r][p].err =>
      /\ worker[r][p].sent = <<>>
      /\ worker[r][p].pc \in {"mp_parts", "mp_abort", "done"}
      /\ worker[r][p].aborts = IF worker[r][p].pc = "mp_parts" THEN 0 ELSE 1
      /\ worker[r][p].pc = "done" =>
           /\ worker[r][p].ret = "false"
           /\ \E f \in files : /\ f.id = worker[r][p].fid
                               /\ f.state = "FAILED"
                               /\ f.reason = "File upload failed"

\* C18 witness: part 1 of a file was uploaded, a later part failed, and the
\* worker has returned after one abort with the row FAILED
C18_Witness ==
  \E r \in RunIds, p \in Paths :
    /\ worker[r][p].err
    /\ worker[r][p].fin = <<1>>
    /\ worker[r][p].pc = "done"
    /\ worker[r][p].aborts = 1
    /\ \E f \in files : f.id = worker[r][p].fid /\ f.state = "FAILED"

\* C19: while upload_file is uploading or verifying, its row is IN_PROGRESS;
\* when it has returned, the row is UPLOADED and the return value true, or the
\* row is FAILED with a failure reason and the return value false
C19_UploadFileOutcome ==
  \A r \in RunIds, p \in Paths :
    /\ (worker[r][p].pc \in Executing /\ RowExists(worker[r][p].fid))
       => RowOfWorker(worker[r][p]).state = "IN_PROGRESS"
    /\ (worker[r][p].pc = "done" /\ RowExists(worker[r][p].fid))
       => \/ /\ RowOfWorker(worker[r][p]).state = "UPLOADED"
             /\ RowOfWorker(worker[r][p]).reason = "none"
             /\ worker[r][p].ret = "true"
          \/ /\ RowOfWorker(worker[r][p]).state = "FAILED"
             /\ RowOfWorker(worker[r][p]).reason # "none"
             /\ worker[r][p].ret = "false"

\* C19 witness: of two workers of a run, one returned true with its row
\* UPLOADED, the other found its source file missing and returned false
C19_Witness ==
  \E r \in RunIds, p, q \in Paths :
    /\ worker[r][p].pc = "done" /\ worker[r][p].ret = "true"
    /\ RowExists(worker[r][p].fid) /\ RowOfWorker(worker[r][p]).state = "UPLOADED"
    /\ worker[r][q].pc = "done" /\ worker[r][q].ret = "false"
    /\ RowExists(worker[r][q].fid) /\ RowOfWorker(worker[r][q]).reason = "Source file not found"

\* a step of the monitor's tick: the query and the first check, or the check
\* of a further job of the tick
MonitorStep == \E i \in Jobs : _scan_active_jobs(i) \/ check_upload_job(i)

\* C20: a step of the monitor's tick starts process_upload_job only for a job
\* persisted COMPLETED whose source folder exists; a job in another state, or
\* without its folder, keeps its job row and its File rows
C20_MonitorOnlyCompletedJobs ==
  [][MonitorStep =>
       \A j \in Jobs :
         /\ (runs'["mon"].pc = "bucket" /\ runs'["mon"].job = j)
            => (jobs[j] = "COMPLETED" /\ folder[j])
         /\ (jobs[j] # "COMPLETED" \/ ~folder[j])
            => (jobs'[j] = jobs[j] /\ {f \in files' : f.job = j} = RowsOf(j))]_vars

\* C20 witness: the monitor has started process_upload_job with the stability
\* filter on a job that was COMPLETED and has rows
C20_Witness ==
  /\ runs["mon"].pc = "bucket"
  /\ runs["mon"].filter
  /\ runs["mon"].prev = "COMPLETED"
  /\ folder[runs["mon"].job]
  /\ RowsOf(runs["mon"].job) # {}

\* the monitor starts the re-scan of a job at this step
MonitorStarts ==
  /\ runs'["mon"] # runs["mon"]
  /\ runs'["mon"].pc = "bucket"
  /\ crashes' = crashes

\* C21: the monitor starts the re-scan of a job only when its re-scan of the
\* job before has returned; a re-scan that ends, failed or not, leaves the
\* jobs of the tick still to be checked as they were, the next of them can
\* then be checked, and with no tick under way a new tick can start
C21_TickIsSequentialAndGoesOn ==
  /\ [][MonitorStarts => runs["mon"].pc = "idle"]_vars
  /\ [][RunEnds("mon") => mon' = mon]_vars
  /\ [](runs["mon"].pc = "idle" => \A j \in mon : ENABLED check_upload_job(j))
  /\ [](runs["mon"].pc = "idle" /\ mon = {} => \A j \in active_jobs : ENABLED _scan_active_jobs(j))

\* C21 witness: the re-scan of the first job of a tick failed and left that
\* job FAILED, and the monitor is re-scanning the second job of the tick
C21_Witness ==
  \E i, j \in Jobs :
    /\ i # j
    /\ runs["mon"].pc = "bucket"
    /\ runs["mon"].job = j
    /\ runs["mon"].prev = "COMPLETED"
    /\ jobs[i] = "FAILED"
    /\ RowsOf(i) # {}
    /\ \A f \in RowsOf(i) : f.state = "UPLOADED"

\* C22: the permits of the file-worker semaphore are counted per job: a
\* worker waiting for a permit, in a job that has fewer than
\* worker_concurrency workers executing, finds a permit free, whatever the
\* workers of the other jobs hold
C22_SemaphorePerJob ==
  \A j \in Jobs, p \in Paths :
    (/\ runs[j].pc = "upload"
     /\ worker[j][p].pc = "queued"
     /\ Cardinality(ActiveWorkers(j)) < worker_concurrency)
    => upload_with_semaphore(j, p)

\* C23: a re-scan the monitor started on a job goes on to its end when the
\* monitor is stopped: short of a restart of the process, it leaves the
\* bucket check only with the job COMPLETED or FAILED or with its uploads
\* under way
C23_StopDoesNotCancelRun ==
  [][(/\ runs["mon"].pc = "bucket"
      /\ runs'["mon"].pc # "bucket"
      /\ crashes' = crashes)
     => \/ jobs'[runs["mon"].job] \in {"COMPLETED", "FAILED"}
        \/ runs'["mon"].pc = "upload"]_vars

\* the step of run r past the bucket check, neither cancelled nor cut by a
\* restart of the process
PastBucket(r) ==
  /\ LeavesReconciliation(r)
  /\ runs'[r].how # "cancelled"
  /\ crashes' = crashes

C25_BucketUnavailableFails ==
  [][\A r \in RunIds :
       (runs[r].pc = "bucket" /\ runs'[r].how = "bucket_failed")
       => /\ jobs'[runs[r].job] = "FAILED"
          /\ runs'[r].pc = "idle"
          /\ files' = files
          /\ worker' = worker
          /\ parts' = parts
          /\ s3' = s3]_vars

\* C25 witness: a later run of a job found the bucket unavailable and ended
\* with the job FAILED, the rows of the earlier run still UPLOADED
C25_Witness ==
  \E r \in RunIds :
    /\ runs[r].pc = "idle"
    /\ runs[r].how = "bucket_failed"
    /\ jobs[runs[r].job] = "FAILED"
    /\ RowsOf(runs[r].job) # {}
    /\ \A f \in RowsOf(runs[r].job) : f.state = "UPLOADED"

\* the committed row of the file that worker p of run r was created for
EnqueuedRows(r, p, rows) ==
  {f \in rows : f.id = worker[r][p].fid /\ f.job = runs[r].job /\ f.path = p}

\* C26: every worker of a run, from its creation on, has its row committed;
\* at the step that creates the workers the rows of all enqueued files are
\* committed PENDING and nothing is written to the object store; a restart of
\* the process keeps the row of every file that was enqueued
C26_RowsCommittedBeforeUpload ==
  /\ [](\A r \in RunIds, p \in Paths :
          worker[r][p].pc # "none" => EnqueuedRows(r, p, files) # {})
  /\ [][\A r \in RunIds, p \in Paths :
          (worker[r][p].pc = "none" /\ worker'[r][p].pc # "none")
          => /\ \E f \in files' : /\ f.id = worker'[r][p].fid
                                  /\ f.path = p
                                  /\ f.state = "PENDING"
             /\ s3' = s3]_vars
  /\ [][crashes' # crashes =>
          \A r \in RunIds, p \in Paths :
            worker[r][p].pc # "none" => EnqueuedRows(r, p, files') # {}]_vars

\* C26 witness: the process restarted in the middle of a batch; the file
\* that was being uploaded has its row IN_PROGRESS and the file that was
\* still waiting has its row PENDING
C26_Witness ==
  \E j \in Jobs :
    /\ crashes = 1
    /\ runs[j].pc = "sched_retry"
    /\ \E f, g \in RowsOf(j) : f.state = "IN_PROGRESS" /\ g.state = "PENDING"

\* C27: when a run ends after its batch, the persisted job state is the one
\* the progress projector derives from all rows of the job: COMPLETED when
\* every row is UPLOADED, FAILED when a row is FAILED and every row is
\* UPLOADED or FAILED, and otherwise IN_PROGRESS as the run had left it
C27_FinalStateIsDerivedState ==
  [][\A r \in RunIds :
       (RunEnds(r) /\ runs'[r].how \in {"uploaded", "nothing"})
       => /\ jobs'[runs[r].job] = compute_job_state(runs[r].job)'
          /\ jobs'[runs[r].job] =
               IF \A f \in files' : f.job = runs[r].job => f.state = "UPLOADED"
               THEN "COMPLETED"
               ELSE IF \A f \in files' : f.job = runs[r].job => f.state \in {"UPLOADED", "FAILED"}
               THEN "FAILED"
               ELSE "IN_PROGRESS"
          /\ jobs'[runs[r].job] = "IN_PROGRESS" => jobs[runs[r].job] = "IN_PROGRESS"]_vars

\* C27 witness: a run has uploaded every file it scanned, and the job is
\* FAILED because of the FAILED row of a file that is no longer on disk
C27_Witness ==
  \E r \in RunIds :
    /\ runs[r].pc = "idle"
    /\ runs[r].how = "uploaded"
    /\ jobs[runs[r].job] = "FAILED"
    /\ _scan_files(runs[r].job) # {}
    /\ \A f \in RowsOf(runs[r].job) :
         (f.state = "FAILED") <=> (f.path \notin _scan_files(runs[r].job))
    /\ \A f \in RowsOf(runs[r].job) : f.state \in {"UPLOADED", "FAILED"}

\* row f is deleted or changed in some field at this step
RowTouched(f) == f \notin files'

\* C28: a step of process_upload_job deletes or changes a row only if the
\* reconciliation of the job is scanning the row's file at that step or the
\* row is the one a worker of the run was created for; the row of a file
\* that is not in the scan keeps all its fields through the reconciliation
C28_UnscannedRowsKept ==
  [][\A f \in files :
       RowTouched(f)
       => \/ \E r \in RunIds : /\ runs[r].pc = "bucket"
                               /\ runs[r].job = f.job
                               /\ f.path \in _scan_files(f.job)
          \/ \E r \in RunIds, p \in Paths : /\ worker[r][p].pc # "none"
                                            /\ worker[r][p].fid = f.id
                                            /\ runs[r].job = f.job
                                            /\ p = f.path
          \/ \E r \in RunIds : runs[r].pc = "sched_retry" /\ runs[r].job = f.job]_vars

\* C28 witness: a later run of a job has reconciled the files on disk and a
\* worker of it has returned, while the FAILED row of a file that vanished
\* before the run, for which the run has no worker, is still as it was
C28_Witness ==
  \E r \in RunIds, p \in Paths :
    /\ runs[r].pc = "upload"
    /\ runs[r].prev = "FAILED"
    /\ worker[r][p].pc = "done"
    /\ \E f \in RowsOf(runs[r].job) :
         /\ worker[r][f.path].pc = "none"
         /\ ~disk[f.job][f.path].present
         /\ f.state = "FAILED"
         /\ f.reason = "File upload failed"

\* C29: the step in which retry_job runs deletes the rows of its job that are
\* PENDING, IN_PROGRESS or FAILED and no other row, changes no row, and
\* enters process_upload_job for that job with the stability filter off
C29_RetryDeletesUnfinishedRows ==
  [][\A r \in RunIds :
       (runs[r].pc = "sched_retry" /\ runs'[r].pc # "sched_retry" /\ crashes' = crashes)
       => /\ files' = {f \in files : f.job # runs[r].job \/ f.state = "UPLOADED"}
          /\ runs'[r].job = runs[r].job
          /\ runs'[r].pc = "bucket"
          /\ ~runs'[r].filter
          /\ jobs'[runs[r].job] = "IN_PROGRESS"]_vars

\* C29 witness: retry_job has run for a job: the UPLOADED row of one of its
\* files is kept, the row of another of its files is gone, and the
\* unfinished row of another job is still there
C29_Witness ==
  \E j, i \in Jobs :
    /\ i # j
    /\ runs[j].pc = "bucket"
    /\ runs[j].kind = "sched_retry"
    /\ \E f \in RowsOf(j) : f.state = "UPLOADED"
    /\ \E p \in Paths : disk[j][p].present /\ existing_files(j, p) = {}
    /\ \E g \in RowsOf(i) : g.state \in {"PENDING", "IN_PROGRESS", "FAILED"}

\* C30: at startup resume_incomplete_jobs schedules one retry_job for each
\* job persisted PENDING or IN_PROGRESS and none for any other job; it
\* returns with the retries scheduled and not yet run, the job rows and File
\* rows as they were and the monitor free to start; every scheduled retry
\* can run, whatever became of the others
C30_RecoverySchedulesRetries ==
  /\ [][crashes' # crashes =>
          /\ \A j \in Jobs :
               /\ (jobs[j] \in {"PENDING", "IN_PROGRESS"}) <=> (runs'[j].pc = "sched_retry")
               /\ runs'[j].pc \in {"sched_retry", "idle"}
               /\ runs'[j].pc = "sched_retry" => runs'[j].job = j
          /\ runs'["mon"].pc = "idle"
          /\ jobs' = jobs
          /\ files' = files]_vars
  /\ [](\A j \in Jobs : runs[j].pc = "sched_retry" => ENABLED retry_job(j))

\* C30 witness: after a restart the retry of a job that was IN_PROGRESS is
\* scheduled, and a job that was COMPLETED or FAILED has no task
C30_Witness ==
  \E j, i \in Jobs :
    /\ crashes = 1
    /\ runs[j].pc = "sched_retry"
    /\ jobs[j] = "IN_PROGRESS"
    /\ jobs[i] \in {"COMPLETED", "FAILED"}
    /\ runs[i] = IdleRun


\* the sum of the sizes of the planned parts
RECURSIVE TotalSize(_)
TotalSize(info) ==
  IF info = <<>> THEN 0 ELSE Head(info).size + TotalSize(Tail(info))

\* C31: for every file size and every chunk size C > 0, a file of at most C
\* bytes is sent with exactly one put_object and no multipart call; a larger
\* file is split into N = ceil(size / C) parts numbered 1..N, part k at offset
\* (k - 1) * C, every part but the last of size C, the last of 1..C bytes, the
\* parts contiguous and their sizes summing to the file size
C31_PartPlan ==
  plan.pc = "done" =>
    LET fs == plan.file_size
        c == plan.chunk
        info == plan.part_info
        N == (fs + c - 1) \div c
    IN IF fs <= c
       THEN /\ plan.calls = <<"put_object">>
            /\ info = <<>>
       ELSE /\ plan.calls = <<"create_multipart_upload">>
            /\ Len(info) = N
            /\ \A k \in 1..N :
                 /\ info[k].part_number = k
                 /\ info[k].offset = (k - 1) * c
                 /\ k < N => info[k].size = c
                 /\ k < N => info[k].offset + info[k].size = info[k + 1].offset
            /\ info[N].size \in 1..c
            /\ info[N].offset + info[N].size = fs
            /\ TotalSize(info) = fs

\* a file of three parts or more whose last part is shorter than a chunk has
\* been planned
C31_Witness ==
  /\ plan.pc = "done"
  /\ Len(plan.part_info) >= 3
  /\ plan.part_info[Len(plan.part_info)].size < plan.chunk


\* C32: a row becomes UPLOADED only in the step in which head_object answers
\* for the row's worker with a content length equal to the size the worker
\* uploaded; a worker whose head_object fails or answers another length ends
\* with its row FAILED, although the upload calls before it succeeded
C32_UploadedOnlyWhenVerified ==
  /\ [][\A f \in files' :
          (f.state = "UPLOADED" /\ ~\E g \in files : g.id = f.id /\ g.state = "UPLOADED")
          => \E r \in RunIds, p \in Paths :
               /\ worker[r][p].pc = "verify"
               /\ worker'[r][p].pc = "done"
               /\ worker[r][p].fid = f.id
               /\ s3[runs[r].job][p] = worker[r][p].size]_vars
  /\ [][\A r \in RunIds, p \in Paths :
          (worker[r][p].pc = "verify" /\ worker'[r][p].pc = "done")
          => \A f \in files' :
               f.id = worker[r][p].fid
               => /\ f.state \in {"UPLOADED", "FAILED"}
                  /\ s3[runs[r].job][p] # worker[r][p].size => f.state = "FAILED"
                  /\ worker'[r][p].ret = "false" => f.state = "FAILED"
                  /\ f.state = "UPLOADED" <=> worker'[r][p].ret = "true"]_vars

\* a worker whose upload succeeded has stored an object of another length than
\* the size it measured, and its row is FAILED for the verification
C32_Witness ==
  \E r \in RunIds, p \in Paths :
    /\ runs[r].pc = "upload"
    /\ worker[r][p].pc = "done"
    /\ worker[r][p].ret = "false"
    /\ s3[runs[r].job][p] # worker[r][p].size
    /\ \E f \in files : /\ f.id = worker[r][p].fid
                        /\ f.state = "FAILED"
                        /\ f.reason = "Upload verification failed"


\* C33: a re-scan by the monitor of a COMPLETED job, with the bucket available,
\* in which every scanned file is either younger than file_stability_threshold
\* or unchanged since its row became UPLOADED, ends with the job COMPLETED
\* again and with every row as it was, so that the next tick examines the job
\* again
C33_IdleRescanKeepsCompleted ==
  [][(/\ LeavesReconciliation("mon")
      /\ runs'["mon"].pc = "idle"
      /\ crashes' = crashes
      /\ runs["mon"].filter
      /\ runs["mon"].prev = "COMPLETED"
      /\ \A p \in _scan_files(runs["mon"].job) :
           \/ Young(runs["mon"].job, p)
           \/ \E f \in existing_files(runs["mon"].job, p) :
                /\ f.state = "UPLOADED"
                /\ f.mtime.v = disk[runs["mon"].job][p].mtime
                /\ f.size = disk[runs["mon"].job][p].size)
     => /\ jobs'[runs["mon"].job] = "COMPLETED"
        /\ files' = files
        /\ runs["mon"].job \in active_jobs']_vars


\* the tasks that are running, or are scheduled to run, process_upload_job for job j
RunsOf(j) ==
  {r \in RunIds : runs[r].job = j /\ runs[r].pc \in {"sched_create", "sched_retry", "bucket", "upload"}}

\* C34: with the runs started by the service itself (the creation of a job,
\* the recovery at startup, the ticks of the monitor), at most one run of
\* process_upload_job is active or scheduled for a job at any time; the
\* monitor starts the re-scan of a job only when no creation or recovery run
\* of that job is scheduled or in progress
C34_OneRunPerJob ==
  /\ [](\A j \in Jobs : Cardinality(RunsOf(j)) <= 1)
  /\ [][MonitorStarts => RunsOf(runs'["mon"].job) = {}]_vars

\* the monitor re-scans a job while the creation or recovery run of another
\* job is in progress
C34_Witness ==
  \E j, i \in Jobs :
    /\ i # j
    /\ runs["mon"].pc = "bucket"
    /\ runs["mon"].job = j
    /\ runs[i].pc \in {"bucket", "upload"}
    /\ runs[j].pc = "idle"


\* C35: once abort_multipart_upload has been issued for an upload, no part
\* task of that upload is in flight and none is still to start; so when the
\* row is marked FAILED every permit of the chunk semaphore taken for the
\* parts of the file has been released
C35_NoPartAfterAbort ==
  /\ [](orphans.queued = 0 /\ orphans.inflight = 0)
  /\ [][\A r \in RunIds, p \in Paths :
          (worker[r][p].pc = "mp_abort" /\ worker'[r][p].pc = "done")
          => /\ \E f \in files' : f.id = worker[r][p].fid /\ f.state = "FAILED"
             /\ chunkSem' = chunks_concurrency
                  - Cardinality({x \in RunIds \X Paths \X (1..MaxParts) :
                                   parts'[x[1]][x[2]][x[3]] = "inflight"})]_vars


\* C36: a run of process_upload_job on an existing job ends by returning, and
\* when it ends with no other run of the job active or scheduled, the
\* persisted state of the job is COMPLETED or FAILED, never PENDING or
\* IN_PROGRESS
C36_RunEndsTerminal ==
  [][\A r \in RunIds :
       (/\ runs[r].pc \in {"bucket", "upload"}
        /\ runs'[r].pc \in {"idle", "stopped"}
        /\ crashes' = crashes
        /\ RunsOf(runs[r].job)' = {})
       => /\ runs'[r].pc = "idle"
          /\ jobs'[runs[r].job] \in {"COMPLETED", "FAILED"}]_vars


\* C37: whenever no run of a job is active or scheduled and the persisted
\* state of the job is COMPLETED or FAILED, compute_job_state returns the
\* persisted state, also after a run that ended on an unavailable bucket, on
\* an empty scan or in the exception handler
C37_DerivedStateIsPersisted ==
  \A j \in Jobs :
    (RunsOf(j) = {} /\ jobs[j] \in {"COMPLETED", "FAILED"})
    => compute_job_state(j) = jobs[j]


\* the reconciliation of a run of the row's job commits at this step
ReconciliationStep(f) ==
  \E r \in RunIds : runs[r].job = f.job /\ LeavesReconciliation(r)

\* the worker created for the row takes its permit at this step
WorkerStarts(f) ==
  \E r \in RunIds, p \in Paths :
    /\ worker[r][p].fid = f.id
    /\ worker[r][p].pc = "queued"
    /\ worker'[r][p].pc # "queued"

\* the worker created for the row returns at this step
WorkerReturns(f) ==
  \E r \in RunIds, p \in Paths :
    /\ worker[r][p].fid = f.id
    /\ worker[r][p].pc \in Executing \cup {"queued"}
    /\ worker'[r][p].pc = "done"

\* the scanned (mtime, size) of the row's file differs from the row's
FingerprintDiffers(f) ==
  \/ ~disk[f.job][f.path].present
  \/ disk[f.job][f.path].mtime # f.mtime.v
  \/ disk[f.job][f.path].size # f.size

\* C38: a row is created PENDING by the reconciliation, and its state changes
\* only from PENDING to IN_PROGRESS by its worker, from IN_PROGRESS to
\* UPLOADED or FAILED by its worker, and from any state to PENDING by the
\* reconciliation; a row goes from UPLOADED to PENDING only when the scanned
\* (mtime, size) differs from the row's, so no row leaves UPLOADED while its
\* file is unchanged on disk, and no row goes from PENDING to UPLOADED.  (A
\* worker that finds its file missing commits IN_PROGRESS and FAILED without
\* suspending in between: the row goes from PENDING to FAILED in one step.)
C38_RowTransitions ==
  [][/\ \A g \in files' :
          (~\E f \in files : f.id = g.id)
          => (g.state = "PENDING" /\ ReconciliationStep(g))
     /\ \A f \in files, g \in files' :
          (g.id = f.id /\ g.state # f.state)
          => \/ /\ g.state = "PENDING"
                /\ ReconciliationStep(f)
                /\ f.state = "UPLOADED" => FingerprintDiffers(f)
             \/ /\ f.state = "PENDING"
                /\ g.state = "IN_PROGRESS"
                /\ WorkerStarts(f)
             \/ /\ f.state = "IN_PROGRESS"
                /\ g.state \in {"UPLOADED", "FAILED"}
                /\ WorkerReturns(f)
             \/ /\ f.state = "PENDING"
                /\ g.state = "FAILED"
                /\ WorkerStarts(f)
                /\ WorkerReturns(f)
                /\ ~disk[f.job][f.path].present]_vars


\* C39: no trigger of the service processes a FAILED job again: no tick of
\* the monitor and no recovery at startup starts or schedules a run of it, and
\* its persisted state and its rows stay as they are; a job that the monitor
\* was watching is not watched any more once it is FAILED
C39_FailedJobsStayFailed ==
  /\ [](\A j \in Jobs : jobs[j] = "FAILED" => RunsOf(j) = {})
  /\ [][\A j \in Jobs :
          jobs[j] = "FAILED"
          => /\ jobs'[j] = "FAILED"
             /\ RowsOf(j)' = RowsOf(j)
             /\ RunsOf(j)' = {}]_vars

\* after a restart the monitor re-scans a job while another job is FAILED
\* with a FAILED row
C39_Witness ==
  \E j, i \in Jobs :
    /\ i # j
    /\ jobs[j] = "FAILED"
    /\ \E f \in RowsOf(j) : f.state = "FAILED"
    /\ crashes = 1
    /\ runs["mon"].pc = "bucket"
    /\ runs["mon"].job = i

====
